---- MODULE Spec2Model ----
(***************************************************************************)
(* The TDD orchestrator of agents/05-tdd-orchestrator/tdd_orchestrator.py: *)
(* the three phase executors (RED, GREEN, REFACTOR), the tools they call   *)
(* (run_tests, read_file, write_file, list_files) and run_tdd_cycles.      *)
(*                                                                         *)
(* The generation oracle (dspy.Predict), the test runner (pnpm test) and   *)
(* the file system are the environment: every answer they can give is a    *)
(* nondeterministic choice.  Texts are drawn from a small alphabet in      *)
(* which 0 is the empty text; a test run's output is a token that names    *)
(* the invocation that produced it.  Python dicts are functions whose      *)
(* DOMAIN is the set of keys present.                                      *)
(***************************************************************************)
EXTENDS Integers, Sequences, FiniteSets, TLC

MaxReqs == 2
NumReqIds == 2
NumPaths == 2
NumContents == 1
MaxK == 3
MaxAttempts == 3

DefaultMaxRetries == 3

Paths == 1..NumPaths
Contents == 0..NumContents
RequirementIds == 1..NumReqIds
TestOutcomes == {"pass", "fail", "timeout"}
WriteOutcomes == {"ok", "error", "error_truncated"}
ReadOutcomes == {"ok", "error"}
PhaseNames == {"red", "green", "refactor"}
ExecOutcomes == {"printed", "silent", "raised", "exit"}

VARIABLES
  requirements,      \* run_tdd_cycles: the argument
  i,                 \* run_tdd_cycles: the loop index (0 before the first cycle)
  cycle_result,      \* run_tdd_cycles: the record of the cycle in progress
  results,           \* run_tdd_cycles: the records of the cycles that ended
  summary,           \* run_tdd_cycles: the returned dict
  pc,                \* the statement the program is at
  fault,             \* the exception that ended the run, "none" otherwise
  files,             \* the project tree: path -> text, for the files present
  ret,               \* the dict the phase that ran last returned
  test_filepath,     \* phase argument
  impl_filepath,     \* phase argument (execute_refactor_phase)
  max_retries,       \* phase argument (execute_green_phase)
  test_content,      \* local: read_file(test_filepath)
  impl_content,      \* local: read_file(impl_filepath)
  result,            \* local: the oracle's prediction
  test_result,       \* local: the latest run_tests()
  previous_attempts, \* local of execute_green_phase
  attempt,           \* local of execute_green_phase: the loop variable
  hint,              \* local of execute_green_phase: the feedback of this attempt
  caller_retries,    \* history: the retry count the caller of the run has in mind
  generated,         \* history: generation calls made in the run, per phase
  phase_calls,       \* history: per cycle, how often each phase was invoked
  writes,            \* history: the paths write_file was called on in this cycle
  red_path,          \* history: the test path the oracle chose in this cycle
  verify,            \* history: per phase, what its latest post-write test run said
  run_seq,           \* history: run_tests invocations so far in this cycle
  gen_calls,         \* history: WriteMinimalCode calls of this GREEN call
  probe_runs,        \* history: line-203 test runs of this GREEN call
  verify_runs,       \* history: line-228 test runs of this GREEN call
  pre_files,         \* history: the project tree when REFACTOR was called
  io_failure,        \* history: the tool whose failure ended a phase of this cycle
  max_attempts,      \* FunctionGenerator: self.max_attempts
  code,              \* FunctionGenerator.forward: local
  test_code,         \* FunctionGenerator.forward: local
  output,            \* FunctionGenerator.forward: local, the latest execution's output
  outputs,           \* history: the outputs of the executions of this forward call
  fix_calls          \* history: per execution, the self.fix calls made after it

pipeline_vars == <<requirements, i, cycle_result, results, summary>>
arg_vars == <<test_filepath, impl_filepath, max_retries>>
local_vars == <<test_content, impl_content, result, test_result,
                previous_attempts, attempt, hint>>
green_hist == <<gen_calls, probe_runs, verify_runs>>
vars == <<requirements, i, cycle_result, results, summary, pc, fault, files, ret,
          test_filepath, impl_filepath, max_retries, test_content, impl_content,
          result, test_result, previous_attempts, attempt, hint, caller_retries,
          phase_calls, writes, red_path, verify, run_seq, gen_calls, probe_runs,
          verify_runs, pre_files, io_failure, generated, max_attempts, code,
          test_code, output, outputs, fix_calls>>
fg_vars == <<max_attempts, code, test_code, output, outputs, fix_calls>>
tdd_vars == <<pipeline_vars, files, arg_vars, test_content, impl_content, result,
              test_result, previous_attempts, hint, caller_retries, generated,
              phase_calls, writes, red_path, verify, run_seq, green_hist,
              pre_files, io_failure>>

----------------------------------------------------------------------------
(* Values *)

Unbound == [unbound |-> TRUE]
IsBound(d) == "unbound" \notin DOMAIN d
NoCalls == [red |-> 0, green |-> 0, refactor |-> 0]
NoVerify == [red |-> "none", green |-> "none", refactor |-> "none"]
Workspaces == UNION {[P -> Contents] : P \in SUBSET Paths}
SeqsUpTo(S, n) == UNION {[1..m -> S] : m \in 0..n}

----------------------------------------------------------------------------
(* Tools *)

\* run_tests: the dict of a run that ended in time; subprocess.run raises
\* TimeoutExpired when the 30 s pass, and run_tests does not catch it.
run_tests(o, seq) ==
  IF o = "timeout" THEN [raise |-> "TimeoutExpired"]
  ELSE [success |-> (o = "pass"), output |-> seq]

Raised(d) == "raise" \in DOMAIN d

\* read_file
read_file(fs, path, o) ==
  IF path \notin DOMAIN fs THEN [success |-> FALSE, error |-> "File not found"]
  ELSE IF o = "error" THEN [success |-> FALSE, error |-> "IOError"]
  ELSE [success |-> TRUE, content |-> fs[path]]

\* write_file: the dict it returns
write_file(path, o) ==
  IF o = "ok" THEN [success |-> TRUE, path |-> path]
  ELSE [success |-> FALSE, error |-> "IOError"]

\* write_file: the project tree it leaves.  A failed write_text leaves the file
\* as it was (mkdir or open failed) or truncated (open succeeded, write failed).
Put(fs, path, content) ==
  [p \in DOMAIN fs \cup {path} |-> IF p = path THEN content ELSE fs[p]]

written_files(fs, path, content, o) ==
  IF o = "ok" THEN Put(fs, path, content)
  ELSE IF o = "error_truncated" THEN Put(fs, path, 0)
  ELSE fs

\* list_files
list_files(fs) == DOMAIN fs

\* dict[key] = value
With(d, k, v) == [x \in DOMAIN d \cup {k} |-> IF x = k THEN v ELSE d[x]]

----------------------------------------------------------------------------
(* State after construction *)

\* The frame of a phase that is not running: its arguments and locals are gone.
NoFrame ==
  /\ test_filepath = 0 /\ impl_filepath = 0 /\ max_retries = 0
  /\ test_content = Unbound /\ impl_content = Unbound
  /\ result = Unbound /\ test_result = Unbound
  /\ previous_attempts = <<>> /\ attempt = 0 /\ hint = <<>>

NoHistory ==
  /\ phase_calls = <<>> /\ writes = {} /\ red_path = 0 /\ verify = NoVerify
  /\ run_seq = 0 /\ gen_calls = 0 /\ probe_runs = 0 /\ verify_runs = 0
  /\ pre_files = << >> /\ io_failure = "none" /\ generated = NoCalls

\* No FunctionGenerator.forward call is in progress
NoForward ==
  /\ max_attempts = 0 /\ code = 0 /\ test_code = 0 /\ output = <<>>
  /\ outputs = <<>> /\ fix_calls = <<>>

\* run_tdd_cycles(requirements) is entered: results = [] (line 311).  The
\* caller is the one of line 393, content with the default retry count.
Init ==
  /\ requirements \in SeqsUpTo(RequirementIds, MaxReqs)
  /\ caller_retries = DefaultMaxRetries
  /\ files \in Workspaces
  /\ i = 0 /\ cycle_result = Unbound /\ results = <<>> /\ summary = Unbound
  /\ pc = "cycle" /\ fault = "none" /\ ret = Unbound
  /\ NoFrame /\ NoHistory /\ NoForward

----------------------------------------------------------------------------
(* An uncaught exception ends the run: nothing above the tools catches any. *)

Abort(exc) ==
  /\ fault' = exc
  /\ pc' = "aborted"

----------------------------------------------------------------------------
(* execute_red_phase *)

\* lines 153-158: list the files, ask the oracle for a failing test
RedGenerate ==
  /\ pc = "red_generate"
  /\ \E text \in Contents, path \in Paths :
       /\ result' = [test_code |-> text, test_filepath |-> path]
       /\ red_path' = path
  /\ generated' = [generated EXCEPT !.red = @ + 1]
  /\ pc' = "red_write"
  /\ UNCHANGED <<pipeline_vars, fault, files, ret, arg_vars, test_content,
                 impl_content, test_result, previous_attempts, attempt, hint,
                 caller_retries, fg_vars, io_failure, phase_calls, writes, verify, run_seq,
                 green_hist, pre_files>>

\* RedWrite without the test of line 162
RedWriteUnchecked ==
  /\ pc = "red_write"
  /\ \E o \in WriteOutcomes :
       LET write_result == write_file(result.test_filepath, o) IN
       /\ files' = written_files(files, result.test_filepath, result.test_code, o)
       /\ writes' = writes \cup {result.test_filepath}
       /\ io_failure' = IF ~write_result.success THEN "write" ELSE io_failure
       /\ pc' = "red_run_tests"
  /\ UNCHANGED <<pipeline_vars, fault, ret, arg_vars, test_content, impl_content,
                 result, test_result, previous_attempts, attempt, hint,
                 caller_retries, fg_vars, generated, phase_calls, red_path, verify, run_seq,
                 green_hist, pre_files>>

\* lines 161-163: write the test file; a failed write ends the phase
RedWrite ==
  /\ pc = "red_write"
  /\ \E o \in WriteOutcomes :
       LET write_result == write_file(result.test_filepath, o) IN
       /\ files' = written_files(files, result.test_filepath, result.test_code, o)
       /\ writes' = writes \cup {result.test_filepath}
       /\ IF ~write_result.success
          THEN /\ ret' = [success |-> FALSE, error |-> "Failed to write test"]
               /\ io_failure' = "write"
               /\ pc' = "red_return"
          ELSE /\ pc' = "red_run_tests"
               /\ UNCHANGED <<ret, io_failure>>
  /\ UNCHANGED <<pipeline_vars, fault, arg_vars, test_content, impl_content,
                 result, test_result, previous_attempts, attempt, hint, caller_retries, fg_vars, generated,
                 phase_calls, red_path, verify, run_seq, green_hist, pre_files>>

\* lines 169-173: the dict RED returns when the new test passes
red_passed_result(tr) ==
  [success |-> FALSE,
   error |-> "Tests passed! But we're in RED phase - tests should FAIL.",
   output |-> tr.output]

\* lines 175-181: the dict RED returns when the new test fails
red_failing_result(tr, path) ==
  [success |-> TRUE, phase |-> "RED",
   message |-> "Test written and failing as expected",
   test_file |-> path, output |-> tr.output]

red_result_unchecked(tr, path) == red_failing_result(tr, path)

\* lines 168-181: RED succeeds when the tests fail
red_result_of(tr, path) ==
  IF tr.success THEN red_passed_result(tr) ELSE red_failing_result(tr, path)

\* lines 166-181: run the tests, which should fail
RedRunTests ==
  /\ pc = "red_run_tests"
  /\ \E o \in TestOutcomes :
       LET tr == run_tests(o, run_seq + 1) IN
       /\ run_seq' = run_seq + 1
       /\ IF Raised(tr)
          THEN /\ Abort(tr.raise)
               /\ UNCHANGED <<ret, test_result, verify>>
          ELSE /\ test_result' = tr
               /\ verify' = [verify EXCEPT !.red = o]
               /\ ret' = red_result_of(tr, result.test_filepath)
               /\ pc' = "red_return"
               /\ UNCHANGED fault
  /\ UNCHANGED <<pipeline_vars, files, arg_vars, test_content, impl_content,
                 result, previous_attempts, attempt, hint, caller_retries, fg_vars, generated, io_failure,
                 phase_calls, writes, red_path, green_hist, pre_files>>

----------------------------------------------------------------------------
(* execute_green_phase *)

\* lines 192-197: read the test; an unreadable test ends the phase
GreenRead ==
  /\ pc = "green_read"
  /\ \E o \in ReadOutcomes :
       LET tc == read_file(files, test_filepath, o) IN
       IF ~tc.success
       THEN /\ ret' = [success |-> FALSE, error |-> "Can't read test"]
            /\ io_failure' = "read"
            /\ pc' = "green_return"
            /\ UNCHANGED <<test_content, previous_attempts>>
       ELSE /\ test_content' = tc
            /\ previous_attempts' = <<>>
            /\ pc' = "green_loop"
            /\ UNCHANGED <<ret, io_failure>>
  /\ UNCHANGED <<pipeline_vars, fault, files, arg_vars, impl_content, result,
                 test_result, attempt, hint, caller_retries, fg_vars, generated, phase_calls, writes,
                 red_path, verify, run_seq, green_hist, pre_files>>

green_has_next_one_more(a, k) == a < k + 1

\* line 199: range(1, max_retries + 1) has a value after `attempt`
green_has_next(a, k) == a < k

\* lines 199-203: the next attempt starts with a test run for the error text
GreenProbe ==
  /\ pc = "green_loop"
  /\ green_has_next(attempt, max_retries)
  /\ \E o \in TestOutcomes :
       LET tr == run_tests(o, run_seq + 1) IN
       /\ run_seq' = run_seq + 1
       /\ probe_runs' = probe_runs + 1
       /\ attempt' = attempt + 1
       /\ IF Raised(tr)
          THEN /\ Abort(tr.raise)
               /\ UNCHANGED test_result
          ELSE /\ test_result' = tr
               /\ pc' = "green_generate"
               /\ UNCHANGED fault
  /\ UNCHANGED <<pipeline_vars, files, ret, arg_vars, test_content, impl_content,
                 result, previous_attempts, hint, caller_retries, fg_vars, generated, io_failure, phase_calls,
                 writes, red_path, verify, gen_calls, verify_runs, pre_files>>

green_hint_latest(prev) ==
  IF prev = <<>> THEN <<>>
  ELSE <<[attempt |-> Len(prev), code |-> prev[Len(prev)].code,
          error |-> prev[Len(prev)].error]>>

\* lines 206-213: one entry per earlier attempt, numbered from 1, in order.
\* The texts of the model are atoms shorter than the 500 and 300 characters
\* the slices of lines 211-212 keep.
green_hint(prev) ==
  [n \in 1..Len(prev) |-> [attempt |-> n, code |-> prev[n].code, error |-> prev[n].error]]

\* GreenGenerate with a second generation call in the same attempt
GreenGenerateTwice ==
  /\ pc = "green_generate"
  /\ hint' = green_hint(previous_attempts)
  /\ \E text \in Contents, path \in Paths :
       result' = [implementation_code |-> text, implementation_filepath |-> path]
  /\ gen_calls' = gen_calls + 1
  /\ generated' = [generated EXCEPT !.green = @ + 2]
  /\ pc' = "green_write"
  /\ UNCHANGED <<pipeline_vars, fault, files, ret, arg_vars, test_content,
                 impl_content, test_result, previous_attempts, attempt,
                 caller_retries, fg_vars, io_failure, phase_calls, writes, red_path, verify, run_seq,
                 probe_runs, verify_runs, pre_files>>

\* lines 206-220: build the hint, ask the oracle for an implementation
GreenGenerate ==
  /\ pc = "green_generate"
  /\ hint' = green_hint(previous_attempts)
  /\ \E text \in Contents, path \in Paths :
       result' = [implementation_code |-> text, implementation_filepath |-> path]
  /\ gen_calls' = gen_calls + 1
  /\ generated' = [generated EXCEPT !.green = @ + 1]
  /\ pc' = "green_write"
  /\ UNCHANGED <<pipeline_vars, fault, files, ret, arg_vars, test_content,
                 impl_content, test_result, previous_attempts, attempt,
                 caller_retries, fg_vars, io_failure, phase_calls, writes, red_path, verify, run_seq,
                 probe_runs, verify_runs, pre_files>>

\* GreenWrite with a failed write taken for a failed attempt
GreenWriteRetried ==
  /\ pc = "green_write"
  /\ \E o \in WriteOutcomes :
       LET write_result == write_file(result.implementation_filepath, o) IN
       /\ files' = written_files(files, result.implementation_filepath,
                                 result.implementation_code, o)
       /\ writes' = writes \cup {result.implementation_filepath}
       /\ IF ~write_result.success
          THEN /\ io_failure' = "write"
               /\ pc' = "green_loop"
          ELSE /\ pc' = "green_run_tests"
               /\ UNCHANGED io_failure
  /\ UNCHANGED <<pipeline_vars, fault, ret, arg_vars, test_content, impl_content,
                 result, test_result, previous_attempts, attempt, hint,
                 caller_retries, fg_vars, generated, phase_calls, red_path, verify, run_seq,
                 green_hist, pre_files>>

\* lines 223-225: write the implementation; a failed write ends the phase
GreenWrite ==
  /\ pc = "green_write"
  /\ \E o \in WriteOutcomes :
       LET write_result == write_file(result.implementation_filepath, o) IN
       /\ files' = written_files(files, result.implementation_filepath,
                                 result.implementation_code, o)
       /\ writes' = writes \cup {result.implementation_filepath}
       /\ IF ~write_result.success
          THEN /\ ret' = [success |-> FALSE, error |-> "Failed to write code"]
               /\ io_failure' = "write"
               /\ pc' = "green_return"
          ELSE /\ pc' = "green_run_tests"
               /\ UNCHANGED <<ret, io_failure>>
  /\ UNCHANGED <<pipeline_vars, fault, arg_vars, test_content, impl_content,
                 result, test_result, previous_attempts, attempt, hint,
                 caller_retries, fg_vars, generated, phase_calls, red_path, verify, run_seq,
                 green_hist, pre_files>>

green_passed_result_zero_based(tr, path, a) ==
  [success |-> TRUE, phase |-> "GREEN",
   message |-> <<"Implementation written and tests pass (attempt", a - 1>>,
   impl_file |-> path, attempts |-> a - 1, output |-> tr.output]

\* lines 231-238: the dict GREEN returns when the tests pass
green_passed_result(tr, path, a) ==
  [success |-> TRUE, phase |-> "GREEN",
   message |-> <<"Implementation written and tests pass (attempt", a>>,
   impl_file |-> path, attempts |-> a, output |-> tr.output]

\* lines 228-244: run the tests; return when they pass, else record the attempt
GreenRunTests ==
  /\ pc = "green_run_tests"
  /\ \E o \in TestOutcomes :
       LET tr == run_tests(o, run_seq + 1) IN
       /\ run_seq' = run_seq + 1
       /\ verify_runs' = verify_runs + 1
       /\ IF Raised(tr)
          THEN /\ Abort(tr.raise)
               /\ UNCHANGED <<ret, test_result, previous_attempts, verify>>
          ELSE /\ test_result' = tr
               /\ verify' = [verify EXCEPT !.green = o]
               /\ UNCHANGED fault
               /\ IF tr.success
                  THEN /\ ret' = green_passed_result(
                                   tr, result.implementation_filepath, attempt)
                       /\ pc' = "green_return"
                       /\ UNCHANGED previous_attempts
                  ELSE /\ previous_attempts' =
                            Append(previous_attempts,
                                   [code |-> result.implementation_code,
                                    error |-> tr.output])
                       /\ pc' = "green_loop"
                       /\ UNCHANGED ret
  /\ UNCHANGED <<pipeline_vars, files, arg_vars, test_content, impl_content,
                 result, attempt, hint, caller_retries, fg_vars, generated, io_failure, phase_calls, writes,
                 red_path, gen_calls, probe_runs, pre_files>>

\* lines 247-252: the dict GREEN returns when the retries are used up
green_exhausted_result(k, tr) ==
  [success |-> FALSE, error |-> <<"Tests still failing after", k, "attempts">>,
   attempts |-> k, output |-> tr.output]

\* GreenExhausted with the last failed implementation removed from the tree
GreenExhaustedRollsBack ==
  /\ pc = "green_loop"
  /\ ~green_has_next(attempt, max_retries)
  /\ IF ~IsBound(test_result)
     THEN /\ Abort("UnboundLocalError")
          /\ UNCHANGED <<ret, files>>
     ELSE /\ ret' = green_exhausted_result(max_retries, test_result)
          /\ files' = [p \in DOMAIN files \ {result.implementation_filepath}
                         |-> files[p]]
          /\ pc' = "green_return"
          /\ UNCHANGED fault
  /\ UNCHANGED <<pipeline_vars, arg_vars, local_vars, caller_retries, fg_vars, generated, io_failure,
                 phase_calls, writes, red_path, verify, run_seq, green_hist,
                 pre_files>>

\* lines 246-252: the loop ended without a pass.  With max_retries <= 0 the
\* loop body never ran, test_result is unbound and line 251 raises.
GreenExhausted ==
  /\ pc = "green_loop"
  /\ ~green_has_next(attempt, max_retries)
  /\ IF ~IsBound(test_result)
     THEN /\ Abort("UnboundLocalError")
          /\ UNCHANGED ret
     ELSE /\ ret' = green_exhausted_result(max_retries, test_result)
          /\ pc' = "green_return"
          /\ UNCHANGED fault
  /\ UNCHANGED <<pipeline_vars, files, arg_vars, local_vars, caller_retries, fg_vars, generated, io_failure,
                 phase_calls, writes, red_path, verify, run_seq, green_hist,
                 pre_files>>

----------------------------------------------------------------------------
(* execute_refactor_phase *)

refactor_unreadable_both(tc, ic) == ~tc.success /\ ~ic.success

\* line 265: not test_content["success"] or not impl_content["success"]
refactor_unreadable(tc, ic) == ~tc.success \/ ~ic.success

\* lines 262-266: read both files; an unreadable one ends the phase
RefactorRead ==
  /\ pc = "refactor_read"
  /\ \E o1 \in ReadOutcomes, o2 \in ReadOutcomes :
       LET tc == read_file(files, test_filepath, o1)
           ic == read_file(files, impl_filepath, o2) IN
       /\ test_content' = tc
       /\ impl_content' = ic
       /\ IF refactor_unreadable(tc, ic)
          THEN /\ ret' = [success |-> FALSE,
                          error |-> "Can't read test or implementation file"]
               /\ io_failure' = "read"
               /\ pc' = "refactor_return"
          ELSE /\ pc' = "refactor_generate"
               /\ UNCHANGED <<ret, io_failure>>
  /\ UNCHANGED <<pipeline_vars, fault, files, arg_vars, result, test_result,
                 previous_attempts, attempt, hint, caller_retries, fg_vars, generated, phase_calls,
                 writes, red_path, verify, run_seq, green_hist, pre_files>>

\* lines 269-273: ask the oracle for the refactored code
RefactorGenerate ==
  /\ pc = "refactor_generate"
  /\ \E text \in Contents, changes \in Contents :
       result' = [refactored_code |-> text, changes_made |-> changes]
  /\ generated' = [generated EXCEPT !.refactor = @ + 1]
  /\ pc' = "refactor_write"
  /\ UNCHANGED <<pipeline_vars, fault, files, ret, arg_vars, test_content,
                 impl_content, test_result, previous_attempts, attempt, hint,
                 caller_retries, fg_vars, io_failure, phase_calls, writes, red_path, verify, run_seq,
                 green_hist, pre_files>>

\* lines 276-278: overwrite the implementation; a failed write ends the phase
RefactorWrite ==
  /\ pc = "refactor_write"
  /\ \E o \in WriteOutcomes :
       LET write_result == write_file(impl_filepath, o) IN
       /\ files' = written_files(files, impl_filepath, result.refactored_code, o)
       /\ writes' = writes \cup {impl_filepath}
       /\ IF ~write_result.success
          THEN /\ ret' = [success |-> FALSE, error |-> "Failed to write"]
               /\ io_failure' = "write"
               /\ pc' = "refactor_return"
          ELSE /\ pc' = "refactor_run_tests"
               /\ UNCHANGED <<ret, io_failure>>
  /\ UNCHANGED <<pipeline_vars, fault, arg_vars, test_content, impl_content,
                 result, test_result, previous_attempts, attempt, hint,
                 caller_retries, fg_vars, generated, phase_calls, red_path, verify, run_seq,
                 green_hist, pre_files>>

\* lines 283-285: the tree after the rollback write, whose result is dropped
rolled_back(fs, path, original, o) == written_files(fs, path, original, o)

\* lines 286-290: the dict REFACTOR returns after a rollback
refactor_broke_result(tr) ==
  [success |-> FALSE, error |-> "Refactoring broke tests - rolled back",
   output |-> tr.output]

refactor_ok_result_output_as_message(tr, changes) ==
  [success |-> TRUE, phase |-> "REFACTOR", message |-> tr.output,
   output |-> tr.output]

\* lines 292-297: the dict REFACTOR returns when the tests still pass
refactor_ok_result(tr, changes) ==
  [success |-> TRUE, phase |-> "REFACTOR", message |-> changes,
   output |-> tr.output]

\* lines 281-297: run the tests; when they fail, write the original back
RefactorRunTests ==
  /\ pc = "refactor_run_tests"
  /\ \E o \in TestOutcomes, w \in WriteOutcomes :
       LET tr == run_tests(o, run_seq + 1) IN
       /\ run_seq' = run_seq + 1
       /\ IF Raised(tr)
          THEN /\ Abort(tr.raise)
               /\ UNCHANGED <<ret, test_result, verify, files>>
          ELSE /\ test_result' = tr
               /\ verify' = [verify EXCEPT !.refactor = o]
               /\ pc' = "refactor_return"
               /\ UNCHANGED fault
               /\ IF ~tr.success
                  THEN /\ files' = rolled_back(files, impl_filepath,
                                               impl_content.content, w)
                       /\ ret' = refactor_broke_result(tr)
                  ELSE /\ w = "ok"
                       /\ ret' = refactor_ok_result(tr, result.changes_made)
                       /\ UNCHANGED files
  /\ UNCHANGED <<pipeline_vars, arg_vars, test_content, impl_content, result,
                 previous_attempts, attempt, hint, caller_retries, fg_vars, generated, io_failure, phase_calls,
                 writes, red_path, green_hist, pre_files>>

----------------------------------------------------------------------------
(* run_tdd_cycles *)

\* A phase is entered with fresh locals; a frame is dropped with its phase.
Enter(tp, ip, k) ==
  /\ test_filepath' = tp /\ impl_filepath' = ip /\ max_retries' = k
  /\ test_content' = Unbound /\ impl_content' = Unbound
  /\ result' = Unbound /\ test_result' = Unbound
  /\ previous_attempts' = <<>> /\ attempt' = 0 /\ hint' = <<>>

Invoked(phase) == phase_calls' = [phase_calls EXCEPT ![i][phase] = @ + 1]

\* lines 327-329, 340-342, 356-361: the cycle gets its status and is appended
EndCycle(cr, status) ==
  /\ cycle_result' = With(cr, "status", status)
  /\ results' = Append(results, With(cr, "status", status))
  /\ pc' = "cycle"
  /\ Enter(0, 0, 0)

\* lines 313-322: the next requirement starts a cycle, which calls RED
NextRequirement ==
  /\ pc = "cycle"
  /\ i < Len(requirements)
  /\ i' = i + 1
  /\ cycle_result' = [requirement |-> requirements[i + 1], cycle |-> i + 1]
  /\ phase_calls' = Append(phase_calls, [NoCalls EXCEPT !.red = 1])
  /\ writes' = {} /\ red_path' = 0 /\ verify' = NoVerify /\ run_seq' = 0
  /\ gen_calls' = 0 /\ probe_runs' = 0 /\ verify_runs' = 0 /\ pre_files' = << >>
  /\ io_failure' = "none"
  /\ Enter(0, 0, 0)
  /\ pc' = "red_generate"
  /\ UNCHANGED <<requirements, results, summary, fault, files, ret, caller_retries, fg_vars, generated>>

green_retry_arg_from_caller == caller_retries

\* line 335: execute_green_phase(red_result["test_file"]) passes no retry
\* count, so the default of line 184 applies
green_retry_arg == DefaultMaxRetries

red_failed_status_pasted == "failed_green"

\* line 327
red_failed_status == "failed_red"

\* AfterRed with execute_refactor_phase called where line 335 calls GREEN
AfterRedCallsRefactor ==
  /\ pc = "red_return"
  /\ LET cr == With(cycle_result, "red", ret) IN
     IF ~ret.success
     THEN /\ EndCycle(cr, red_failed_status)
          /\ UNCHANGED <<phase_calls, pre_files>>
     ELSE /\ cycle_result' = cr
          /\ Enter(ret.test_file, ret.test_file, 0)
          /\ Invoked("refactor")
          /\ pre_files' = files
          /\ pc' = "refactor_read"
          /\ UNCHANGED results
  /\ UNCHANGED <<requirements, i, summary, fault, files, ret, caller_retries, fg_vars, generated,
                 io_failure, writes, red_path, verify, run_seq, green_hist>>

\* lines 323-335: record RED; stop the cycle when it failed, else call GREEN
AfterRed ==
  /\ pc = "red_return"
  /\ LET cr == With(cycle_result, "red", ret) IN
     IF ~ret.success
     THEN /\ EndCycle(cr, red_failed_status)
          /\ UNCHANGED phase_calls
     ELSE /\ cycle_result' = cr
          /\ Enter(ret.test_file, 0, green_retry_arg)
          /\ Invoked("green")
          /\ pc' = "green_read"
          /\ UNCHANGED results
  /\ UNCHANGED <<requirements, i, summary, fault, files, ret, caller_retries, fg_vars, generated, io_failure,
                 writes, red_path, verify, run_seq, green_hist, pre_files>>

\* AfterGreen without the test of line 338, the path taken with .get
AfterGreenUnchecked ==
  /\ pc = "green_return"
  /\ cycle_result' = With(cycle_result, "green", ret)
  /\ Enter(cycle_result.red.test_file,
           IF "impl_file" \in DOMAIN ret THEN ret.impl_file
           ELSE cycle_result.red.test_file, 0)
  /\ Invoked("refactor")
  /\ pre_files' = files
  /\ pc' = "refactor_read"
  /\ UNCHANGED <<requirements, i, results, summary, fault, files, ret,
                 caller_retries, fg_vars, generated, io_failure, writes, red_path, verify, run_seq, green_hist>>

\* AfterGreen with the two arguments of line 348 in the other order
AfterGreenSwapped ==
  /\ pc = "green_return"
  /\ LET cr == With(cycle_result, "green", ret) IN
     IF ~ret.success
     THEN /\ EndCycle(cr, "failed_green")
          /\ UNCHANGED <<phase_calls, pre_files>>
     ELSE /\ cycle_result' = cr
          /\ Enter(ret.impl_file, cycle_result.red.test_file, 0)
          /\ Invoked("refactor")
          /\ pre_files' = files
          /\ pc' = "refactor_read"
          /\ UNCHANGED results
  /\ UNCHANGED <<requirements, i, summary, fault, files, ret, caller_retries, fg_vars, generated,
                 io_failure, writes, red_path, verify, run_seq, green_hist>>

\* lines 336-351: record GREEN; stop the cycle when it failed, else call REFACTOR
AfterGreen ==
  /\ pc = "green_return"
  /\ LET cr == With(cycle_result, "green", ret) IN
     IF ~ret.success
     THEN /\ EndCycle(cr, "failed_green")
          /\ UNCHANGED <<phase_calls, pre_files>>
     ELSE /\ cycle_result' = cr
          /\ Enter(cycle_result.red.test_file, ret.impl_file, 0)
          /\ Invoked("refactor")
          /\ pre_files' = files
          /\ pc' = "refactor_read"
          /\ UNCHANGED results
  /\ UNCHANGED <<requirements, i, summary, fault, files, ret, caller_retries, fg_vars, generated, io_failure,
                 writes, red_path, verify, run_seq, green_hist>>

refactor_status_always_complete(r) == "complete"

\* lines 354-359: the status of a cycle whose three phases ran
refactor_status(r) == IF ~r.success THEN "failed_refactor" ELSE "complete"

\* lines 352-361: record REFACTOR and end the cycle
AfterRefactor ==
  /\ pc = "refactor_return"
  /\ EndCycle(With(cycle_result, "refactor", ret), refactor_status(ret))
  /\ UNCHANGED <<requirements, i, summary, fault, files, ret, caller_retries, fg_vars, generated, io_failure,
                 phase_calls, writes, red_path, verify, run_seq, green_hist,
                 pre_files>>

RECURSIVE count_complete(_)

count_refactored(rs) ==
  IF rs = <<>> THEN 0
  ELSE (IF "refactor" \in DOMAIN Head(rs) THEN 1 ELSE 0) + count_complete(Tail(rs))

\* line 364: sum(1 for r in results if r["status"] == "complete")
count_complete(rs) ==
  IF rs = <<>> THEN 0
  ELSE (IF Head(rs).status = "complete" THEN 1 ELSE 0) + count_complete(Tail(rs))

\* lines 363-373: the loop is over, the summary is returned
Summarize ==
  /\ pc = "cycle"
  /\ i >= Len(requirements)
  /\ summary' = [total |-> Len(requirements),
                 completed |-> count_complete(results),
                 cycles |-> results]
  /\ pc' = "done"
  /\ UNCHANGED <<requirements, i, cycle_result, results, fault, files, ret,
                 arg_vars, local_vars, caller_retries, fg_vars, generated, io_failure, phase_calls, writes,
                 red_path, verify, run_seq, green_hist, pre_files>>

Next ==
  \/ NextRequirement
  \/ RedGenerate \/ RedWrite \/ RedRunTests \/ AfterRed
  \/ GreenRead \/ GreenProbe \/ GreenGenerate \/ GreenWrite \/ GreenRunTests
  \/ GreenExhausted \/ AfterGreen
  \/ RefactorRead \/ RefactorGenerate \/ RefactorWrite \/ RefactorRunTests
  \/ AfterRefactor
  \/ Summarize

Spec == Init /\ [][Next]_vars

\* run_tdd_cycles(requirements) is entered with a list of any length up to
\* MaxReqs.  The text of a requirement goes to the oracle (line 319) and into
\* the record (line 316) and decides no branch, so one text stands for all.
InitLive == Init /\ requirements \in SeqsUpTo({1}, MaxReqs)

\* The run is one sequential thread of control: while a statement is left to
\* execute, the interpreter executes it.
SpecLive == InitLive /\ [][Next]_vars /\ WF_vars(Next)

----------------------------------------------------------------------------
(* execute_green_phase(test_filepath, max_retries) called on its own, with
   any retry count from 0 to MaxK *)

InitGreen ==
  /\ requirements = <<>> /\ i = 0 /\ cycle_result = Unbound /\ results = <<>>
  /\ summary = Unbound /\ fault = "none" /\ ret = Unbound
  /\ files \in Workspaces
  /\ test_filepath \in Paths /\ impl_filepath = 0 /\ max_retries \in 0..MaxK
  /\ test_content = Unbound /\ impl_content = Unbound
  /\ result = Unbound /\ test_result = Unbound
  /\ previous_attempts = <<>> /\ attempt = 0 /\ hint = <<>>
  /\ caller_retries = max_retries
  /\ NoHistory /\ NoForward
  /\ pc = "green_read"

NextGreen ==
  \/ GreenRead \/ GreenProbe \/ GreenGenerate \/ GreenWrite \/ GreenRunTests
  \/ GreenExhausted

SpecGreen == InitGreen /\ [][NextGreen]_vars

----------------------------------------------------------------------------
(* run_tdd_cycles called by a caller that has a retry count of its own in
   mind, for which the signature of line 304 has no parameter *)

InitCaller ==
  /\ requirements \in SeqsUpTo(RequirementIds, 1)
  /\ caller_retries \in 0..MaxK
  /\ files \in Workspaces
  /\ i = 0 /\ cycle_result = Unbound /\ results = <<>> /\ summary = Unbound
  /\ pc = "cycle" /\ fault = "none" /\ ret = Unbound
  /\ NoFrame /\ NoHistory /\ NoForward

SpecCaller == InitCaller /\ [][Next]_vars

----------------------------------------------------------------------------
(* execute_refactor_phase(test_filepath, impl_filepath) called on its own, on
   any project tree *)

InitRefactor ==
  /\ requirements = <<>> /\ i = 0 /\ cycle_result = Unbound /\ results = <<>>
  /\ summary = Unbound /\ fault = "none" /\ ret = Unbound
  /\ files \in Workspaces
  /\ test_filepath \in Paths /\ impl_filepath \in Paths /\ max_retries = 0
  /\ test_content = Unbound /\ impl_content = Unbound
  /\ result = Unbound /\ test_result = Unbound
  /\ previous_attempts = <<>> /\ attempt = 0 /\ hint = <<>>
  /\ caller_retries = DefaultMaxRetries
  /\ phase_calls = <<>> /\ writes = {} /\ red_path = 0 /\ verify = NoVerify
  /\ run_seq = 0 /\ gen_calls = 0 /\ probe_runs = 0 /\ verify_runs = 0
  /\ pre_files = files /\ io_failure = "none" /\ generated = NoCalls
  /\ NoForward
  /\ pc = "refactor_read"

NextRefactor ==
  \/ RefactorRead \/ RefactorGenerate \/ RefactorWrite \/ RefactorRunTests

SpecRefactor == InitRefactor /\ [][NextRefactor]_vars

----------------------------------------------------------------------------
(* FunctionGenerator.forward(description, function_name), on a generator
   built with any max_attempts from 0 to MaxAttempts
   (src/agents/03-function-generator/function_generator.py).  A string is
   the sequence of its parts; output = <<>> stands for the local not yet
   assigned. *)

\* str.startswith
startswith(str, prefix) == Len(str) > 0 /\ str[1] = prefix

\* execute_python, lines 44-53: what it returns when exec returned after
\* printing, returned after printing nothing, or raised an Exception
execute_python(o) ==
  IF o = "printed" THEN <<"SUCCESS", ":\n", "stdout">>
  ELSE IF o = "silent" THEN <<"SUCCESS", ": Code executed without errors.">>
  ELSE <<"ERROR", ": ", "Exception">>

\* lines 97-101: self.generate
FgGenerate ==
  /\ pc = "fg_generate"
  /\ code' \in Contents
  /\ pc' = "fg_generate_test"
  /\ UNCHANGED <<tdd_vars, fault, ret, attempt, max_attempts, test_code, output,
                 outputs, fix_calls>>

\* lines 105-109: self.generate_test
FgGenerateTest ==
  /\ pc = "fg_generate_test"
  /\ test_code' \in Contents
  /\ pc' = "fg_loop"
  /\ UNCHANGED <<tdd_vars, fault, ret, attempt, max_attempts, code, output,
                 outputs, fix_calls>>

\* lines 119-125: the dict forward returns when an execution succeeded
fg_success_result(c, tc, out, a) ==
  [success |-> TRUE, code |-> c, test_code |-> tc, output |-> out, attempts |-> a]

\* lines 136-142: the dict forward returns when no execution succeeded
fg_failure_result(c, tc, out, m) ==
  [success |-> FALSE, code |-> c, test_code |-> tc, otuput |-> out, attempts |-> m]

fg_should_fix_always(a, m) == TRUE

\* line 130: a fix is asked for unless this was the last attempt
fg_should_fix(a, m) == a < m

\* lines 112-130: the next attempt executes the code.  exec lets through what
\* is no Exception (SystemExit from the executed code), which ends the call.
FgExecute ==
  /\ pc = "fg_loop"
  /\ attempt < max_attempts
  /\ \E o \in ExecOutcomes :
       IF o = "exit"
       THEN /\ Abort("SystemExit")
            /\ UNCHANGED <<attempt, output, outputs, fix_calls, ret>>
       ELSE LET out == execute_python(o) IN
            /\ attempt' = attempt + 1
            /\ output' = out
            /\ outputs' = Append(outputs, out)
            /\ fix_calls' = Append(fix_calls, 0)
            /\ IF startswith(out, "SUCCESS")
               THEN /\ ret' = fg_success_result(code, test_code, out, attempt + 1)
                    /\ pc' = "fg_return"
               ELSE /\ pc' = IF fg_should_fix(attempt + 1, max_attempts)
                             THEN "fg_fix" ELSE "fg_loop"
                    /\ UNCHANGED ret
            /\ UNCHANGED fault
  /\ UNCHANGED <<tdd_vars, max_attempts, code, test_code>>

\* lines 132-133: self.fix replaces the code
FgFix ==
  /\ pc = "fg_fix"
  /\ code' \in Contents
  /\ fix_calls' = [fix_calls EXCEPT ![Len(fix_calls)] = @ + 1]
  /\ pc' = "fg_loop"
  /\ UNCHANGED <<tdd_vars, fault, ret, attempt, max_attempts, test_code, output,
                 outputs>>

\* lines 135-142: the loop ended without a success.  With max_attempts <= 0
\* the loop body never ran, output is unbound and line 140 raises.
FgExhausted ==
  /\ pc = "fg_loop"
  /\ ~(attempt < max_attempts)
  /\ IF output = <<>>
     THEN /\ Abort("UnboundLocalError")
          /\ UNCHANGED ret
     ELSE /\ ret' = fg_failure_result(code, test_code, output, max_attempts)
          /\ pc' = "fg_return"
          /\ UNCHANGED fault
  /\ UNCHANGED <<tdd_vars, attempt, fg_vars>>

InitForward ==
  /\ requirements = <<>> /\ i = 0 /\ cycle_result = Unbound /\ results = <<>>
  /\ summary = Unbound /\ fault = "none" /\ ret = Unbound
  /\ files = << >> /\ caller_retries = DefaultMaxRetries
  /\ NoFrame /\ NoHistory
  /\ max_attempts \in 0..MaxAttempts
  /\ code = 0 /\ test_code = 0 /\ output = <<>>
  /\ outputs = <<>> /\ fix_calls = <<>>
  /\ pc = "fg_generate"

NextForward ==
  \/ FgGenerate \/ FgGenerateTest \/ FgExecute \/ FgFix \/ FgExhausted

SpecForward == InitForward /\ [][NextForward]_vars

----------------------------------------------------------------------------
(* Properties *)

\* The record of cycle j: appended to results when the cycle ended, else the
\* one in progress.
CycleRecord(j) == IF j <= Len(results) THEN results[j] ELSE cycle_result
Failed(cr, phase) == phase \in DOMAIN cr /\ ~cr[phase].success
GreenPcs == {"green_read", "green_loop", "green_generate", "green_write",
             "green_run_tests", "green_return"}

\* C1 Cycle short-circuit: in every cycle, once RED has returned a failed
\* outcome neither GREEN nor REFACTOR is invoked, and once GREEN has returned
\* a failed outcome REFACTOR is not invoked.
C1_ShortCircuit ==
  /\ \A j \in 1..Len(phase_calls) :
       /\ Failed(CycleRecord(j), "red") =>
            phase_calls[j].green = 0 /\ phase_calls[j].refactor = 0
       /\ Failed(CycleRecord(j), "green") => phase_calls[j].refactor = 0
  /\ (pc = "red_return" /\ ~ret.success) =>
       phase_calls[i].green = 0 /\ phase_calls[i].refactor = 0
  /\ (pc = "green_return" /\ ~ret.success) => phase_calls[i].refactor = 0

\* A run that returned with one cycle stopped after RED and one after GREEN.
C1_Witness ==
  /\ pc = "done"
  /\ \E j \in 1..Len(results) : results[j].status = "failed_red"
  /\ \E j \in 1..Len(results) :
       /\ results[j].status = "failed_green"
       /\ "attempts" \in DOMAIN results[j].green

\* C2 Refactor safety: when REFACTOR returns after a post-refactor test run
\* that reported failure, the implementation file holds what it held when
\* the phase was called, and the outcome is marked failed.
C2_RefactorSafety ==
  (pc = "refactor_return" /\ verify.refactor = "fail") =>
    /\ ~ret.success
    /\ impl_filepath \in DOMAIN files
    /\ files[impl_filepath] = pre_files[impl_filepath]

\* C3 Green bound, as claimed: one GREEN call makes at most max_retries
\* generation calls and at most max_retries test runs beyond the first probe,
\* and reports attempts <= max_retries.
C3_GreenBound ==
  /\ gen_calls <= max_retries
  /\ (probe_runs + verify_runs > 0) => probe_runs + verify_runs - 1 <= max_retries
  /\ (pc = "green_return" /\ "attempts" \in DOMAIN ret) => ret.attempts <= max_retries

\* C3 Green bound, amended: one GREEN call makes at most max_retries
\* generation calls, at most max_retries probe runs (one opens each attempt)
\* and at most max_retries post-write test runs, and reports
\* attempts <= max_retries.
C3_GreenBoundPerAttempt ==
  /\ gen_calls <= max_retries
  /\ probe_runs <= max_retries
  /\ verify_runs <= max_retries
  /\ (pc = "green_return" /\ "attempts" \in DOMAIN ret) => ret.attempts <= max_retries

\* GREEN returned after using up a retry count of two or more.
C3_Witness ==
  /\ pc = "green_return"
  /\ max_retries >= 2
  /\ ~ret.success
  /\ gen_calls = max_retries /\ probe_runs = max_retries /\ verify_runs = max_retries

\* C4 Red invariant: RED returns success only after its post-write test run
\* reported failure; when that run reports success RED returns a failed
\* outcome, the cycle ends failed_red, GREEN is not invoked, and write_file
\* is called on no path but the test's in that cycle.
C4_RedInvariant ==
  /\ (pc = "red_return" /\ ret.success) => verify.red = "fail"
  /\ (pc = "red_return" /\ verify.red = "pass") => ~ret.success
  /\ verify.red = "pass" =>
       /\ writes \subseteq {red_path}
       /\ phase_calls[i].green = 0
       /\ pc \in {"red_return", "cycle", "done"}
       /\ pc \in {"cycle", "done"} =>
            /\ Len(results) = i
            /\ results[i].status = "failed_red"
            /\ DOMAIN results[i] \cap PhaseNames = {"red"}

\* A cycle ended failed_red because the generated test passed at once.
C4_Witness ==
  /\ pc = "cycle"
  /\ verify.red = "pass"
  /\ results[i].status = "failed_red"
  /\ writes = {red_path}

\* C5 Timeout handling: a test run that exceeds its time bound never ends the
\* run with an uncaught TimeoutExpired.
C5_TimeoutIsData == fault # "TimeoutExpired"

\* C6 Summary consistency: in the summary run_tdd_cycles returns, completed
\* is the number of entries of cycles whose status is complete and total is
\* the number of requirements (both 0 for the empty list).
C6_SummaryConsistent ==
  pc = "done" =>
    /\ summary.completed =
         Cardinality({j \in 1..Len(summary.cycles) :
                        summary.cycles[j].status = "complete"})
    /\ summary.total = Len(requirements)
    /\ requirements = <<>> => summary.total = 0 /\ summary.completed = 0

\* A returned summary with a complete cycle and one that is not.
C6_Witness ==
  /\ pc = "done"
  /\ summary.total = 2
  /\ summary.completed = 1
  /\ summary.cycles[1].status = "failed_refactor"

\* The cycle records: of the cycles that ended and, once the run returned,
\* of the summary.
Records ==
  {results[j] : j \in 1..Len(results)} \cup
  (IF pc = "done" THEN {summary.cycles[j] : j \in 1..Len(summary.cycles)} ELSE {})

Succeeded(cr, phase) == phase \in DOMAIN cr /\ cr[phase].success

\* C7 Every cycle record whose status is complete holds a red, a green and a
\* refactor outcome, all three with success = true.
C7_CompleteHasAllThree ==
  \A cr \in Records :
    cr.status = "complete" =>
      Succeeded(cr, "red") /\ Succeeded(cr, "green") /\ Succeeded(cr, "refactor")

\* The returned summary holds a complete cycle.
C7_Witness ==
  /\ pc = "done"
  /\ \E j \in 1..Len(summary.cycles) : summary.cycles[j].status = "complete"

\* C8 Every cycle record whose status is failed_X holds the outcome of X with
\* success = false, the outcomes of the phases before X with success = true,
\* and no outcome of a phase after X.
C8_FailedAtFirstFailure ==
  \A cr \in Records :
    /\ cr.status = "failed_red" =>
         Failed(cr, "red") /\ DOMAIN cr \cap PhaseNames = {"red"}
    /\ cr.status = "failed_green" =>
         /\ Succeeded(cr, "red") /\ Failed(cr, "green")
         /\ DOMAIN cr \cap PhaseNames = {"red", "green"}
    /\ cr.status = "failed_refactor" =>
         Succeeded(cr, "red") /\ Succeeded(cr, "green") /\ Failed(cr, "refactor")

\* The returned summary holds a failed_red and a failed_refactor cycle.
C8_Witness ==
  /\ pc = "done"
  /\ \E j \in 1..Len(summary.cycles) : summary.cycles[j].status = "failed_red"
  /\ \E j \in 1..Len(summary.cycles) : summary.cycles[j].status = "failed_refactor"

\* C9 A failed cycle does not halt the pipeline: when the run has ended, it
\* has returned a summary, RED was invoked exactly once for each requirement,
\* and cycles holds one record per requirement, in the order of the input.
C9_EveryRequirementAttempted ==
  pc \in {"done", "aborted"} =>
    /\ pc = "done"
    /\ Len(phase_calls) = Len(requirements)
    /\ \A j \in 1..Len(requirements) : phase_calls[j].red = 1
    /\ Len(summary.cycles) = Len(requirements)
    /\ \A j \in 1..Len(requirements) :
         summary.cycles[j].requirement = requirements[j]

\* C10 as claimed: GREEN runs with the retry count the caller has in mind.
C10_CallerCount == pc \in GreenPcs => max_retries = caller_retries

\* C10 amended: in every cycle GREEN runs with max_retries = 3, the default
\* of execute_green_phase, whatever count the caller has in mind.
C10_DefaultCount == pc \in GreenPcs => max_retries = DefaultMaxRetries

\* GREEN made three attempts for a caller that wanted one.
C10_Witness ==
  /\ pc = "green_return"
  /\ caller_retries = 1
  /\ "attempts" \in DOMAIN ret
  /\ ret.attempts = DefaultMaxRetries

\* C11 Green exhaustion: when GREEN has read the test, every test run has
\* returned and each of the max_retries attempts has had its post-write test
\* run without a pass, GREEN returns a failed outcome that reports
\* attempts = max_retries and the output of the last test run.
C11_Exhaustion ==
  (/\ pc \in {"green_return", "aborted"}
   /\ fault # "TimeoutExpired"
   /\ IsBound(test_content)
   /\ verify_runs = max_retries
   /\ verify.green # "pass") =>
    /\ pc = "green_return"
    /\ ~ret.success
    /\ ret.attempts = max_retries
    /\ ret.output = run_seq

\* C12 Green success count: when GREEN returns after a post-write test run
\* that passed, it returns success with attempts = j, the number of
\* generation calls and of post-write test runs made, after j - 1 recorded
\* failed attempts, and impl_file is the path of the j-th generation.
C12_SuccessCount ==
  /\ (pc = "green_return" /\ verify.green = "pass") =>
       /\ ret.success
       /\ ret.attempts \in 1..max_retries
       /\ ret.attempts = gen_calls
       /\ ret.attempts = verify_runs
       /\ Len(previous_attempts) = ret.attempts - 1
       /\ ret.impl_file = result.implementation_filepath
  /\ (pc = "green_return" /\ ret.success) => verify.green = "pass"

\* GREEN passed on its second attempt of three.
C12_Witness ==
  /\ pc = "green_return"
  /\ max_retries = DefaultMaxRetries
  /\ ret.success
  /\ ret.attempts = 2

\* C13 I/O failure in GREEN is fatal and never retried: an unreadable test
\* ends the phase with a failed outcome and no generation, write or test
\* run; a failed write of the implementation ends it at once with a failed
\* outcome, without a test run of that attempt and without a record of it in
\* the retry history.
C13_IoFailureFatal ==
  /\ io_failure = "read" =>
       /\ pc = "green_return"
       /\ ~ret.success
       /\ gen_calls = 0 /\ writes = {} /\ run_seq = 0
  /\ io_failure = "write" =>
       /\ pc = "green_return"
       /\ ~ret.success
       /\ "attempts" \notin DOMAIN ret
       /\ probe_runs = gen_calls
       /\ verify_runs = gen_calls - 1
       /\ Len(previous_attempts) = gen_calls - 1

\* The write of the second attempt failed.
C13_Witness ==
  /\ pc = "green_return"
  /\ io_failure = "write"
  /\ gen_calls = 2

\* C14 When REFACTOR cannot read the test file or the implementation file it
\* returns a failed outcome without a generation call, a write or a test
\* run, and the project tree is as it was when the phase was called.
C14_UnreadableLeavesTree ==
  /\ io_failure = "read" =>
       /\ pc = "refactor_return"
       /\ ~ret.success
       /\ result = Unbound
       /\ writes = {} /\ run_seq = 0
       /\ files = pre_files
  /\ (pc # "refactor_read" /\ {test_filepath, impl_filepath} \ DOMAIN pre_files # {}) =>
       io_failure = "read"

\* REFACTOR returned because the implementation file does not exist.
C14_Witness ==
  /\ pc = "refactor_return"
  /\ io_failure = "read"
  /\ test_content.success
  /\ ~impl_content.success
  /\ impl_filepath \notin DOMAIN files

\* C15 When REFACTOR returns success, its post-write test run reported
\* success, the implementation file holds the refactored code the oracle
\* returned, and the outcome's message is the oracle's change summary.
C15_RefactorSuccess ==
  (pc = "refactor_return" /\ ret.success) =>
    /\ verify.refactor = "pass"
    /\ impl_filepath \in DOMAIN files
    /\ files[impl_filepath] = result.refactored_code
    /\ ret.message = result.changes_made

\* REFACTOR succeeded with code that differs from the code it was given.
C15_Witness ==
  /\ pc = "refactor_return"
  /\ ret.success
  /\ files[impl_filepath] # pre_files[impl_filepath]
  /\ ret.message # ret.output

\* The test runs of the cycle made before the GREEN call in progress.
RunsBeforeGreen == run_seq - probe_runs - verify_runs

\* C16 Cumulative Green feedback: the feedback of the generation call of
\* attempt n holds one entry for each of the n - 1 earlier attempts, in
\* attempt order, with the output of that attempt's post-write test run
\* (none for n = 1); the retry history holds one record per failed attempt
\* of this GREEN call and is empty when the call starts.
C16_CumulativeFeedback ==
  /\ pc \in {"green_write", "green_run_tests"} =>
       /\ Len(hint) = attempt - 1
       /\ \A n \in 1..Len(hint) :
            /\ hint[n].attempt = n
            /\ hint[n].code = previous_attempts[n].code
            /\ hint[n].error = RunsBeforeGreen + 2 * n
  /\ pc \in {"green_loop", "green_generate", "green_write", "green_run_tests"} =>
       /\ Len(previous_attempts) = verify_runs
       /\ \A n \in 1..Len(previous_attempts) :
            previous_attempts[n].error = RunsBeforeGreen + 2 * n
  /\ pc = "green_read" => previous_attempts = <<>>

\* The third attempt of the GREEN call of the second cycle got both earlier
\* attempts as feedback.
C16_Witness ==
  /\ pc = "green_write"
  /\ i = 2
  /\ "green" \in DOMAIN results[1]
  /\ attempt = DefaultMaxRetries
  /\ Len(hint) = 2
  /\ hint[1].code # hint[2].code

\* C17 When the write of the generated test fails, RED returns a failed
\* outcome without a test run, and the cycle ends failed_red with no other
\* phase invoked.
C17_RedWriteFailure ==
  (io_failure = "write" /\ phase_calls[i].green = 0) =>
    /\ run_seq = 0
    /\ pc \in {"red_return", "cycle", "done"}
    /\ pc = "red_return" => ~ret.success
    /\ pc \in {"cycle", "done"} =>
         /\ Len(results) = i
         /\ results[i].status = "failed_red"
         /\ ~results[i].red.success
         /\ DOMAIN results[i] \cap PhaseNames = {"red"}

\* A cycle ended failed_red on a failed write that left the test file truncated.
C17_Witness ==
  /\ pc = "cycle"
  /\ io_failure = "write"
  /\ phase_calls[i].green = 0
  /\ results[i].status = "failed_red"
  /\ red_path \in DOMAIN files

RefactorPcs == {"refactor_read", "refactor_generate", "refactor_write",
                "refactor_run_tests", "refactor_return"}

\* C18 Artifact flow: in every cycle GREEN runs on the test path of that
\* cycle's RED outcome, REFACTOR runs on that same test path and on the
\* implementation path of the GREEN attempt that passed, and the end of
\* REFACTOR, failed or not, leaves the recorded RED and GREEN outcomes as
\* they were.
C18_ArtifactFlow ==
  /\ [](/\ pc \in GreenPcs =>
            /\ cycle_result.red.test_file = red_path
            /\ test_filepath = red_path
        /\ pc \in RefactorPcs =>
            /\ cycle_result.red.test_file = red_path
            /\ test_filepath = red_path
            /\ impl_filepath = cycle_result.green.impl_file)
  /\ [][/\ (pc = "green_return" /\ pc' = "refactor_read") =>
            impl_filepath' = result.implementation_filepath
        /\ pc = "refactor_return" =>
            /\ cycle_result'.red = cycle_result.red
            /\ cycle_result'.green = cycle_result.green
            /\ results'[Len(results')] = cycle_result']_vars

\* A cycle ended failed_refactor with its GREEN outcome recorded, on an
\* implementation path that is not the test's.
C18_Witness ==
  /\ pc = "cycle"
  /\ i > 0
  /\ results[i].status = "failed_refactor"
  /\ results[i].green.success
  /\ results[i].green.impl_file # results[i].red.test_file

RedPcs == {"red_generate", "red_write", "red_run_tests", "red_return"}

\* C19 Strict sequencing: the program is at one statement at a time, so one
\* phase at most is active; in a cycle each phase is invoked at most once,
\* GREEN only after RED returned success and REFACTOR only after GREEN
\* returned success; an attempt of GREEN starts only after the post-write
\* test run of the attempt before it returned; and the RED of a requirement
\* starts only after the cycles of all earlier requirements got their status.
C19_StrictSequence ==
  /\ Len(phase_calls) = i
  /\ \A j \in 1..i : \A ph \in PhaseNames : phase_calls[j][ph] <= 1
  /\ \A j \in 1..i :
       /\ phase_calls[j].red = 1
       /\ phase_calls[j].green = 1 => Succeeded(CycleRecord(j), "red")
       /\ phase_calls[j].refactor = 1 =>
            Succeeded(CycleRecord(j), "red") /\ Succeeded(CycleRecord(j), "green")
  /\ pc \in RedPcs => phase_calls[i].green = 0 /\ phase_calls[i].refactor = 0
  /\ pc \in GreenPcs => phase_calls[i].green = 1 /\ phase_calls[i].refactor = 0
  /\ pc \in RefactorPcs => phase_calls[i].refactor = 1
  /\ pc \in {"green_generate", "green_write", "green_run_tests"} =>
       /\ probe_runs = attempt
       /\ verify_runs = attempt - 1
       /\ gen_calls \in {attempt - 1, attempt}
  /\ pc = "green_loop" => probe_runs = attempt /\ verify_runs = attempt
  /\ \A j \in 1..Len(results) : "status" \in DOMAIN results[j]
  /\ pc \in RedPcs \cup GreenPcs \cup RefactorPcs =>
       /\ Len(results) = i - 1
       /\ "status" \notin DOMAIN cycle_result
  /\ pc \in {"cycle", "done"} => Len(results) = i

\* The RED of the second requirement starts after a first cycle that went
\* through three attempts of GREEN and ended failed_refactor.
C19_Witness ==
  /\ pc = "red_generate"
  /\ i = 2
  /\ results[1].status = "failed_refactor"
  /\ results[1].green.attempts = DefaultMaxRetries

ReturnPcs == {"red_return", "green_return", "refactor_return", "cycle"}

\* C20 Workspace accumulation: no step removes a path from the project tree;
\* a write that succeeded leaves the file with the written text; the test
\* file of a RED that ran the tests (failed or not) and the last
\* implementation of a GREEN that used up its attempts are on disk when the
\* phase returns; and from a phase's return to the listing of the next RED
\* the tree is not touched.
C20_WorkspaceAccumulates ==
  /\ [](/\ (pc = "red_return" /\ "output" \in DOMAIN ret) =>
              /\ result.test_filepath \in list_files(files)
              /\ files[result.test_filepath] = result.test_code
        /\ (pc = "green_return" /\ ~ret.success /\ "attempts" \in DOMAIN ret) =>
              /\ result.implementation_filepath \in list_files(files)
              /\ files[result.implementation_filepath] = result.implementation_code
              /\ red_path \in list_files(files))
  /\ [][/\ list_files(files) \subseteq list_files(files')
        /\ pc \in ReturnPcs => files' = files
        /\ (pc = "red_write" /\ pc' = "red_run_tests") =>
              files'[result.test_filepath] = result.test_code
        /\ (pc = "green_write" /\ pc' = "green_run_tests") =>
              files'[result.implementation_filepath] = result.implementation_code
        /\ (pc = "refactor_write" /\ pc' = "refactor_run_tests") =>
              files'[impl_filepath] = result.refactored_code]_vars

\* The RED of the second requirement lists a tree that holds the two files
\* the first cycle left, a cycle that ended with GREEN out of attempts.
C20_Witness ==
  /\ pc = "red_generate"
  /\ i = 2
  /\ results[1].status = "failed_green"
  /\ "attempts" \in DOMAIN results[1].green
  /\ results[1].red.test_file \in list_files(files)
  /\ Cardinality(list_files(files)) = NumPaths

\* C21 Termination: with n requirements and the retry count k of GREEN, a
\* run makes at most n generation calls of RED, n * k of GREEN and n of
\* REFACTOR; the only way a run ends without a summary is a gateway call
\* that raised instead of returning; and a run in which every gateway call
\* returns reaches the return of the summary.
C21_Termination ==
  /\ [](/\ generated.red <= Len(requirements)
        /\ generated.green <= Len(requirements) * DefaultMaxRetries
        /\ generated.refactor <= Len(requirements)
        /\ pc = "aborted" => fault = "TimeoutExpired"
        /\ fault = "TimeoutExpired" => pc = "aborted"
        /\ pc = "done" =>
             /\ IsBound(summary)
             /\ summary.total = Len(requirements)
             /\ Len(summary.cycles) = Len(requirements))
  /\ ([](fault = "none") => <>(pc = "done"))

\* A run over MaxReqs requirements returned its summary after as many
\* generation calls as the bounds allow.
C21_Witness ==
  /\ pc = "done"
  /\ Len(requirements) = MaxReqs
  /\ generated.red = MaxReqs
  /\ generated.green = MaxReqs * DefaultMaxRetries
  /\ generated.refactor = MaxReqs

RECURSIVE SumSeq(_)
SumSeq(q) == IF q = <<>> THEN 0 ELSE Head(q) + SumSeq(Tail(q))

\* C22 Generate-execute-patch bound: on a generator with max_attempts = m
\* >= 1, forward executes the code at most m times and calls self.fix at
\* most m - 1 times, each call right after an execution that failed and none
\* after the m-th; an execution whose output starts with SUCCESS ends the
\* call, so it is the first such, and forward returns success with its
\* number as attempts; and forward returns failure only after m executions
\* none of which succeeded, with attempts = m.
C22_ExecutePatchBound ==
  max_attempts >= 1 =>
    /\ Len(outputs) <= max_attempts
    /\ Len(outputs) = attempt
    /\ Len(fix_calls) = Len(outputs)
    /\ SumSeq(fix_calls) <= max_attempts - 1
    /\ \A j \in 1..Len(fix_calls) :
         /\ fix_calls[j] <= 1
         /\ fix_calls[j] = 1 => ~startswith(outputs[j], "SUCCESS") /\ j < max_attempts
    /\ \A j \in 1..Len(outputs) :
         startswith(outputs[j], "SUCCESS") =>
           /\ j = Len(outputs)
           /\ pc = "fg_return"
    /\ pc = "fg_return" =>
         /\ ret.success <=>
              \E j \in 1..Len(outputs) : startswith(outputs[j], "SUCCESS")
         /\ ret.success =>
              /\ ret.attempts = Len(outputs)
              /\ startswith(outputs[ret.attempts], "SUCCESS")
              /\ \A j \in 1..(ret.attempts - 1) : ~startswith(outputs[j], "SUCCESS")
              /\ ret.output = outputs[ret.attempts]
         /\ ~ret.success =>
              /\ ret.attempts = max_attempts
              /\ Len(outputs) = max_attempts
              /\ SumSeq(fix_calls) = max_attempts - 1
    /\ pc = "fg_loop" /\ attempt >= max_attempts => output # <<>>
    /\ pc = "aborted" => fault = "SystemExit"

\* forward returned failure after MaxAttempts executions and MaxAttempts - 1
\* fixes.
C22_Witness ==
  /\ pc = "fg_return"
  /\ max_attempts = MaxAttempts
  /\ ~ret.success
  /\ ret.attempts = MaxAttempts
  /\ SumSeq(fix_calls) = MaxAttempts - 1

\* forward returned success at its second execution, after one fix.
C22_WitnessSuccess ==
  /\ pc = "fg_return"
  /\ ret.success
  /\ ret.attempts = 2
  /\ SumSeq(fix_calls) = 1

====
